---------------------------- MODULE Spec2Model ----------------------------
(***************************************************************************)
(* Security-intelligence analytics backend.                                *)
(*                                                                         *)
(*   backend/app/database.py          the process-wide connection pool     *)
(*                                    and the execute_query /              *)
(*                                    execute_scalar helpers               *)
(*   backend/app/routes/analytics.py  the analytics endpoints: their SQL   *)
(*                                    (CTEs, window functions, LIMIT /     *)
(*                                    OFFSET) and the shaping of replies   *)
(*   backend/app/main.py              the lifespan that opens and closes   *)
(*                                    the pool                             *)
(*                                                                         *)
(* Six specifications share the variables below:                           *)
(*   SpecPool    threads calling the endpoints through the pool            *)
(*   SpecTrend   get_severity_trend over a table of events                 *)
(*   SpecRank    get_top_attackers over a table of events                  *)
(*   SpecRecent  a client paging through get_recent_events                 *)
(*   SpecPages   the pagination metadata over the validated page sizes     *)
(*   SpecAppend  get_recent_events while the seed script commits batches   *)
(***************************************************************************)
EXTENDS Integers, Sequences, FiniteSets, TLC

VARIABLES
    connection_pool,   \* database.py:_connection_pool
    pc,                \* per thread: where it is in its request
    endpoint,          \* per thread: the endpoint it is serving
    fn,                \* per thread: the database helper it is inside
    fetched,           \* per thread: what the cursor gave in the try body
    gets,              \* per thread: connections obtained in the current call
    puts,              \* per thread: connections returned in the current call
    reply,             \* per thread: what the endpoint handed to its caller
    security_events,   \* the security_events table
    request,           \* the analytics request being served
    response,          \* its response
    client             \* a client paging through /recent-events

poolVars == <<connection_pool, pc, endpoint, fn, fetched, gets, puts, reply>>
dataVars == <<security_events, request, response, client>>
vars == <<connection_pool, pc, endpoint, fn, fetched, gets, puts, reply,
          security_events, request, response, client>>

(***************************************************************************)
(* Bounds of the model.                                                    *)
(***************************************************************************)
NumThreads == 2
MaxConnBound == 2
MaxTotal == 25     \* rows of the table in SpecPages
MaxPage == 4       \* pages asked for in SpecPages
MaxRecent == 12    \* rows of the table in SpecRecent
MaxAttacks == 5    \* rows of the table in SpecRank
MaxLimit == 3      \* largest limit asked of /top-attackers in SpecRank
TicksPerHour == 2  \* clock ticks in an hour (timestamps are in ticks)
MaxCount == 2      \* events of one severity in one hour in SpecTrend
MaxLookback == 2   \* largest lookback asked of /severity-trend in SpecTrend
MaxBatch == 2      \* rows of one committed batch in SpecAppend

Threads == 1..NumThreads

None == "None"

(***************************************************************************)
(* database.py                                                             *)
(***************************************************************************)

\* _connection_pool = None (database.py:8).  `idle` is the length of the
\* pool's free list, `used` the holders of checked-out connections.
NoPool ==
    [init |-> FALSE, closed |-> FALSE, minconn |-> 0, maxconn |-> 0,
     idle |-> 0, used |-> {}]

\* init_pool(minconn, maxconn): ThreadedConnectionPool opens minconn
\* connections into its free list.
init_pool(minconn, maxconn) ==
    /\ ~connection_pool.init
    /\ connection_pool' =
           [init |-> TRUE, closed |-> FALSE, minconn |-> minconn,
            maxconn |-> maxconn, idle |-> minconn, used |-> {}]
    /\ UNCHANGED <<pc, endpoint, fn, fetched, gets, puts, reply>>
    /\ UNCHANGED dataVars

\* close_pool(): closeall() when the pool exists.  The lifespan (main.py)
\* runs it at shutdown, after the server stopped serving requests.
close_pool ==
    /\ connection_pool.init
    /\ ~connection_pool.closed
    /\ \A t \in Threads : pc[t] \in {"idle", "responded"}
    /\ connection_pool' = [connection_pool EXCEPT !.closed = TRUE, !.idle = 0]
    /\ UNCHANGED <<pc, endpoint, fn, fetched, gets, puts, reply>>
    /\ UNCHANGED dataVars

\* The helper an endpoint calls first, and how.
FirstCall(e) ==
    IF e = "recent-events" THEN "execute_scalar"
    ELSE IF e = "kpis" THEN "execute_query_one"
    ELSE "execute_query_all"

Endpoints == {"kpis", "list", "recent-events"}

\* Variant of GetconnOutcomes: a pool that makes the caller wait while every
\* connection is checked out.
GetconnOutcomesBlocking(p) ==
    IF ~p.init THEN {"RuntimeError"}
    ELSE IF p.closed THEN {"PoolError"}
    ELSE IF p.idle > 0 THEN {"conn"}
    ELSE IF Cardinality(p.used) = p.maxconn THEN {}
    ELSE {"conn", "OperationalError"}

\* What the pool does on getconn(): the outcomes of get_connection().
\*   "RuntimeError"  the pool was never initialised
\*   "PoolError"     the pool is closed, or every connection is checked out
\*   "conn"          a connection, from the free list or newly opened
\*   "OperationalError"  opening a new connection failed
GetconnOutcomes(p) ==
    IF ~p.init THEN {"RuntimeError"}
    ELSE IF p.closed THEN {"PoolError"}
    ELSE IF p.idle > 0 THEN {"conn"}
    ELSE IF Cardinality(p.used) = p.maxconn THEN {"PoolError"}
    ELSE {"conn", "OperationalError"}

\* The pool after thread t obtained a connection.
Getconn(p, t) ==
    [p EXCEPT !.idle = IF p.idle > 0 THEN p.idle - 1 ELSE 0,
              !.used = p.used \cup {t}]

\* The pool after putconn() of t's connection: kept in the free list while
\* that holds fewer than minconn connections (unless broken), else closed.
Putconn(p, t, broken) ==
    [p EXCEPT !.idle = IF p.idle < p.minconn /\ ~broken THEN p.idle + 1
                       ELSE p.idle,
              !.used = p.used \ {t}]

\* release_connection(conn): putconn only when the pool and conn exist.
ReleasedPool(p, t, broken) ==
    IF p.init /\ t \in p.used THEN Putconn(p, t, broken) ELSE p


\* Variant of AfterTry: the release sits at the end of the try body instead
\* of in a finally clause, so a raising query skips it.
AfterTryNoFinally(p, t, outcome, broken) ==
    IF outcome = "raise" THEN p ELSE ReleasedPool(p, t, broken)

\* try/finally of execute_query and execute_scalar: the finally clause runs
\* release_connection(conn) whatever the try body did.
AfterTry(p, t, outcome, broken) ==
    ReleasedPool(p, t, broken)

\* What the cursor can give inside the try body of helper f: rows, no row,
\* or cur.execute raising.
CursorOutcomes(f) ==
    IF f = "execute_query_all" THEN {"rows", "no_rows", "raise"}
    ELSE IF f = "execute_query_one" THEN {"row", "no_row", "raise"}
    ELSE {"value", "no_row", "raise"}

Exceptions == {"RuntimeError", "PoolError", "OperationalError", "DatabaseError"}

\* The value the helper returns (or the exception it lets through):
\* fetchall() gives a list, possibly empty; fetchone() a row or None.
ReturnValue(f, outcome) ==
    IF outcome = "raise" THEN "DatabaseError"
    ELSE IF f = "execute_query_all"
         THEN (IF outcome = "rows" THEN "rows" ELSE "[]")
    ELSE IF f = "execute_query_one"
         THEN (IF outcome = "row" THEN "row" ELSE None)
    ELSE (IF outcome = "value" THEN "value" ELSE None)

(***************************************************************************)
(* routes/analytics.py: what each endpoint makes of the helper's result r. *)
(* No endpoint catches an exception.                                       *)
(* EndpointReplyCatching is the variant whose endpoints catch the failure  *)
(* and answer with their empty default.                                    *)
(***************************************************************************)
EndpointReplyCatching(e, r) ==
    IF e = "kpis" THEN (IF r \in Exceptions \cup {None} THEN "zeroed" ELSE "row")
    ELSE IF e = "list" THEN (IF r \in Exceptions THEN "[]" ELSE r)
    ELSE IF r \in Exceptions THEN r
    ELSE "page"

EndpointReply(e, r) ==
    IF r \in Exceptions THEN r
    ELSE IF e = "kpis" THEN (IF r = None THEN "zeroed" ELSE "row")
    ELSE IF e = "list" THEN r
    ELSE "page"

\* A thread takes up a request for endpoint e.
Request(t, e) ==
    /\ pc[t] = "idle"
    /\ pc' = [pc EXCEPT ![t] = "get_connection"]
    /\ endpoint' = [endpoint EXCEPT ![t] = e]
    /\ fn' = [fn EXCEPT ![t] = FirstCall(e)]
    /\ UNCHANGED <<connection_pool, fetched, gets, puts, reply>>
    /\ UNCHANGED dataVars

\* conn = get_connection(): before the try, so a failure here propagates
\* with nothing to release.
get_connection(t) ==
    /\ pc[t] = "get_connection"
    /\ \E o \in GetconnOutcomes(connection_pool) :
        IF o = "conn"
        THEN /\ connection_pool' = Getconn(connection_pool, t)
             /\ pc' = [pc EXCEPT ![t] = "try"]
             /\ gets' = [gets EXCEPT ![t] = @ + 1]
             /\ UNCHANGED reply
        ELSE /\ pc' = [pc EXCEPT ![t] = "responded"]
             /\ reply' = [reply EXCEPT ![t] = EndpointReply(endpoint[t], o)]
             /\ UNCHANGED <<connection_pool, gets>>
    /\ UNCHANGED <<endpoint, fn, fetched, puts>>
    /\ UNCHANGED dataVars

\* The try body: cursor, execute, fetch.
try_body(t) ==
    /\ pc[t] = "try"
    /\ \E o \in CursorOutcomes(fn[t]) :
        fetched' = [fetched EXCEPT ![t] = o]
    /\ pc' = [pc EXCEPT ![t] = "finally"]
    /\ UNCHANGED <<connection_pool, endpoint, fn, gets, puts, reply>>
    /\ UNCHANGED dataVars

\* The finally clause, and the rest of the endpoint after the helper
\* returned: get_recent_events goes on to its data query, every other
\* endpoint (and any exception) ends the request.
finally(t) ==
    /\ pc[t] = "finally"
    /\ \E broken \in (IF fetched[t] = "raise" THEN BOOLEAN ELSE {FALSE}) :
        connection_pool' = AfterTry(connection_pool, t, fetched[t], broken)
    /\ puts' = [puts EXCEPT ![t] =
                   IF t \in connection_pool.used /\ t \notin connection_pool'.used
                   THEN @ + 1 ELSE @]
    /\ IF endpoint[t] = "recent-events" /\ fn[t] = "execute_scalar"
          /\ fetched[t] # "raise"
       THEN /\ pc' = [pc EXCEPT ![t] = "get_connection"]
            /\ fn' = [fn EXCEPT ![t] = "execute_query_all"]
            /\ fetched' = [fetched EXCEPT ![t] = None]
            /\ UNCHANGED reply
       ELSE /\ pc' = [pc EXCEPT ![t] = "responded"]
            /\ reply' = [reply EXCEPT ![t] =
                   EndpointReply(endpoint[t], ReturnValue(fn[t], fetched[t]))]
            /\ UNCHANGED <<fn, fetched>>
    /\ UNCHANGED <<endpoint, gets>>
    /\ UNCHANGED dataVars

\* The reply has been delivered; the thread is free again.
Return(t) ==
    /\ pc[t] = "responded"
    /\ pc' = [pc EXCEPT ![t] = "idle"]
    /\ endpoint' = [endpoint EXCEPT ![t] = None]
    /\ fn' = [fn EXCEPT ![t] = None]
    /\ fetched' = [fetched EXCEPT ![t] = None]
    /\ gets' = [gets EXCEPT ![t] = 0]
    /\ puts' = [puts EXCEPT ![t] = 0]
    /\ reply' = [reply EXCEPT ![t] = None]
    /\ UNCHANGED connection_pool
    /\ UNCHANGED dataVars

NoRequest == [op |-> None, at |-> None]
NoClient == [at |-> "idle"]

InitPoolVars ==
    /\ connection_pool = NoPool
    /\ pc = [t \in Threads |-> "idle"]
    /\ endpoint = [t \in Threads |-> None]
    /\ fn = [t \in Threads |-> None]
    /\ fetched = [t \in Threads |-> None]
    /\ gets = [t \in Threads |-> 0]
    /\ puts = [t \in Threads |-> 0]
    /\ reply = [t \in Threads |-> None]

InitPool ==
    /\ InitPoolVars
    /\ security_events = <<>>
    /\ request = NoRequest
    /\ response = None
    /\ client = NoClient

NextPool ==
    \/ \E maxconn \in 1..MaxConnBound : \E minconn \in 0..maxconn :
           init_pool(minconn, maxconn)
    \/ close_pool
    \/ \E t \in Threads : \E e \in Endpoints : Request(t, e)
    \/ \E t \in Threads : get_connection(t)
    \/ \E t \in Threads : try_body(t)
    \/ \E t \in Threads : finally(t)
    \/ \E t \in Threads : Return(t)

SpecPool == InitPool /\ [][NextPool]_vars


(***************************************************************************)
(* The security_events table.  A row is an event with the id the table     *)
(* gave it (its position in insertion order).                              *)
(***************************************************************************)
Event(ts, sev, typ, ip) ==
    [timestamp |-> ts, severity |-> sev, event_type |-> typ, source_ip |-> ip]

Rows(table) ==
    {[id |-> i, timestamp |-> table[i].timestamp,
      severity |-> table[i].severity, event_type |-> table[i].event_type,
      source_ip |-> table[i].source_ip] : i \in DOMAIN table}

Min(a, b) == IF a <= b THEN a ELSE b
Max(a, b) == IF a >= b THEN a ELSE b

(***************************************************************************)
(* get_recent_events (analytics.py:166-217)                                *)
(***************************************************************************)
PageSizeMin == 10
PageSizeMax == 200

\* where_sql: the AND of the equality filters that were given.
Where(rows, severity, event_type) ==
    {r \in rows :
        /\ severity # None => r.severity = severity
        /\ event_type # None => r.event_type = event_type}

\* ORDER BY timestamp DESC: every sequence of the rows in which timestamps
\* never increase.  The query names no second sort key, so rows with equal
\* timestamps come in whatever order the executor produces.
RECURSIVE OrderByTimestampDesc(_)
OrderByTimestampDesc(rows) ==
    IF rows = {} THEN {<<>>}
    ELSE LET newest == {r \in rows :
                           \A q \in rows : q.timestamp <= r.timestamp}
         IN  UNION {{<<r>> \o rest :
                        rest \in OrderByTimestampDesc(rows \ {r})} :
                    r \in newest}

\* LIMIT limit OFFSET offset
LimitOffset(ordered, limit, offset) ==
    SubSeq(ordered, offset + 1, Min(offset + limit, Len(ordered)))

\* Variant of TotalPages: floor instead of ceiling.
TotalPagesFloor(total, page_size) ==
    IF total # 0 THEN total \div page_size ELSE 0

\* "total_pages": (total + page_size - 1) // page_size if total else 0
TotalPages(total, page_size) ==
    IF total # 0
    THEN (total + page_size - 1) \div page_size
    ELSE 0

\* Entry of the handler: offset and filters are fixed; total is not yet
\* assigned (-1 stands for that; COUNT(*) always gives a number).
RecentRequest(page, page_size, severity, event_type) ==
    [op |-> "recent-events", at |-> "count_query",
     page |-> page, page_size |-> page_size,
     severity |-> severity, event_type |-> event_type,
     offset |-> (page - 1) * page_size, total |-> -1]

get_recent_events(page, page_size, severity, event_type) ==
    /\ request = NoRequest
    /\ client = NoClient
    /\ request' = RecentRequest(page, page_size, severity, event_type)
    /\ response' = None
    /\ UNCHANGED <<security_events, client>>
    /\ UNCHANGED poolVars

\* The reply went out; the next request can come.
recent_events_done ==
    /\ request.op = "recent-events"
    /\ request.at = "returned"
    /\ client = NoClient
    /\ request' = NoRequest
    /\ response' = None
    /\ UNCHANGED <<security_events, client>>
    /\ UNCHANGED poolVars

\* total = execute_scalar(count_query, ...)
count_query ==
    /\ request.op = "recent-events"
    /\ request.at = "count_query"
    /\ request' = [request EXCEPT
           !.at = "data_query",
           !.total = Cardinality(Where(Rows(security_events),
                                       request.severity, request.event_type))]
    /\ UNCHANGED <<security_events, response, client>>
    /\ UNCHANGED poolVars

\* rows = execute_query(data_query, ...), then the reply is built.
data_query ==
    /\ request.op = "recent-events"
    /\ request.at = "data_query"
    /\ \E ordered \in OrderByTimestampDesc(
                          Where(Rows(security_events),
                                request.severity, request.event_type)) :
        response' =
            [data |-> LimitOffset(ordered, request.page_size, request.offset),
             pagination |->
                 [page |-> request.page,
                  page_size |-> request.page_size,
                  total |-> request.total,
                  total_pages |-> TotalPages(request.total, request.page_size)]]
    /\ request' = [request EXCEPT !.at = "returned"]
    /\ UNCHANGED <<security_events, client>>
    /\ UNCHANGED poolVars

(***************************************************************************)
(* Tables of the pagination specifications: event i carries timestamp i,   *)
(* except that with tie > 0 event tie + 1 carries the timestamp of event   *)
(* tie; severities and event types follow fixed patterns.                  *)
(***************************************************************************)
TableOf(n, tie) ==
    [i \in 1..n |->
        Event(IF tie > 0 /\ i = tie + 1 THEN tie ELSE i,
              IF (i \div 2) % 2 = 1 THEN "high" ELSE "low",
              IF i % 3 = 0 THEN "port_scan" ELSE "brute_force",
              "10.0.0.1")]

InitData(table) ==
    /\ InitPoolVars
    /\ security_events = table
    /\ request = NoRequest
    /\ response = None
    /\ client = NoClient

(***************************************************************************)
(* SpecPages: single calls of get_recent_events, for every validated page  *)
(* size, over tables without ties.                                         *)
(***************************************************************************)
InitPages ==
    \E n \in 0..MaxTotal : InitData(TableOf(n, 0))

NextPages ==
    \/ \E page \in 1..MaxPage : \E page_size \in PageSizeMin..PageSizeMax :
       \E severity \in {None, "high"} :
           get_recent_events(page, page_size, severity, None)
    \/ count_query
    \/ data_query
    \/ recent_events_done

SpecPages == InitPages /\ [][NextPages]_vars

(***************************************************************************)
(* SpecRecent: a client reads page 1, learns total_pages from the reply    *)
(* and goes on to page total_pages, keeping what each page held.           *)
(***************************************************************************)
PageSizesWalked == {PageSizeMin, PageSizeMin + 1}

client_start(page_size, severity, event_type) ==
    /\ client = NoClient
    /\ request = NoRequest
    /\ client' = [at |-> "waiting", page |-> 1, page_size |-> page_size,
                  severity |-> severity, event_type |-> event_type,
                  data |-> <<>>]
    /\ request' = RecentRequest(1, page_size, severity, event_type)
    /\ response' = None
    /\ UNCHANGED security_events
    /\ UNCHANGED poolVars

client_next ==
    /\ client.at = "waiting"
    /\ request.at = "returned"
    /\ IF client.page < response.pagination.total_pages
       THEN /\ client' = [client EXCEPT !.page = @ + 1,
                                        !.data = @ \o response.data]
            /\ request' = RecentRequest(client.page + 1, client.page_size,
                                        client.severity, client.event_type)
       ELSE /\ client' = [client EXCEPT !.at = "done",
                                        !.data = @ \o response.data]
            /\ request' = NoRequest
    /\ response' = None
    /\ UNCHANGED security_events
    /\ UNCHANGED poolVars

InitRecent ==
    \E n \in 0..MaxRecent : \E tie \in 0..Max(n - 1, 0) :
        InitData(TableOf(n, tie))

NextRecent ==
    \/ \E page_size \in PageSizesWalked :
       \E severity \in {None, "high", "low"} :
       \E event_type \in {None, "port_scan"} :
           client_start(page_size, severity, event_type)
    \/ count_query
    \/ data_query
    \/ client_next

SpecRecent == InitRecent /\ [][NextRecent]_vars

(***************************************************************************)
(* db/seed.py: seed_database inserts the events batch by batch on its own  *)
(* connection and commits after each batch (seed.py:216-223); a batch is   *)
(* visible to the other connections from its commit on.                    *)
(***************************************************************************)

\* A batch of n generated events of one severity, stamped after the rows
\* the table holds.
Batch(n, sev, stored) ==
    [i \in 1..n |-> Event(stored + i, sev, "brute_force", "10.0.0.1")]

\* execute_values(cur, insert_sql, batch); conn.commit()
seed_batch(batch) ==
    /\ security_events' = security_events \o batch
    /\ UNCHANGED <<request, response, client>>
    /\ UNCHANGED poolVars

(***************************************************************************)
(* SpecAppend: single calls of get_recent_events while the seed script     *)
(* commits batches onto a table of MaxRecent - MaxBatch .. MaxRecent rows, *)
(* up to MaxRecent + MaxBatch rows.  count_query and data_query are two    *)
(* statements, each run by its own helper call on a connection taken from  *)
(* and returned to the pool (database.py:50-76), so each reads the rows    *)
(* committed when it starts, and a commit can fall between them.           *)
(***************************************************************************)
InitAppend ==
    \E n \in (MaxRecent - MaxBatch)..MaxRecent : InitData(TableOf(n, 0))

NextAppend ==
    \/ \E page \in 1..2 : \E page_size \in PageSizesWalked :
       \E severity \in {None, "high"} :
           get_recent_events(page, page_size, severity, None)
    \/ count_query
    \/ data_query
    \/ recent_events_done
    \/ \E n \in 1..MaxBatch : \E sev \in {"high", "low"} :
           /\ Len(security_events) + n <= MaxRecent + MaxBatch
           /\ seed_batch(Batch(n, sev, Len(security_events)))

SpecAppend == InitAppend /\ [][NextAppend]_vars

(***************************************************************************)
(* get_top_attackers (analytics.py:108-139).  Of the columns of            *)
(* attacker_stats the model carries source_ip and total_events, the ones   *)
(* the ranking reads; percentile is in units of 0.0001.                    *)
(***************************************************************************)

\* attacker_stats: GROUP BY source_ip, COUNT(*) AS total_events
attacker_stats(table) ==
    {[source_ip |-> ip,
      total_events |-> Cardinality({i \in DOMAIN table :
                                       table[i].source_ip = ip})] :
        ip \in {table[i].source_ip : i \in DOMAIN table}}

\* The rows sorted by total_events, largest first (one of the orders the
\* sort may produce; window functions do not depend on which).
RECURSIVE SortTotalDesc(_)
SortTotalDesc(rows) ==
    IF rows = {} THEN <<>>
    ELSE LET r == CHOOSE x \in rows :
                      \A q \in rows : q.total_events <= x.total_events
         IN  <<r>> \o SortTotalDesc(rows \ {r})

RECURSIVE SortTotalAsc(_)
SortTotalAsc(rows) ==
    IF rows = {} THEN <<>>
    ELSE LET r == CHOOSE x \in rows :
                      \A q \in rows : q.total_events >= x.total_events
         IN  <<r>> \o SortTotalAsc(rows \ {r})

\* Variant of RankAt: ROW_NUMBER() in place of RANK().
RowNumberAt(ordered, i) == i

\* RANK() over the sorted rows: a row that is a peer of the row before it
\* takes that row's rank, any other row takes its position.
RECURSIVE RankAt(_, _)
RankAt(ordered, i) ==
    IF i = 1 THEN 1
    ELSE IF ordered[i].total_events = ordered[i - 1].total_events
         THEN RankAt(ordered, i - 1)
         ELSE i

\* ROUND(x, 4) of the fraction num / den, in units of 0.0001 (half away
\* from zero; num, den >= 0).
Round4(num, den) == (2 * 10000 * num + den) \div (2 * den)

\* PERCENT_RANK(): (rank - 1) / (rows - 1), 0 for a single row.
PercentRankAt(ordered, i) ==
    IF Len(ordered) = 1 THEN 0
    ELSE Round4(RankAt(ordered, i) - 1, Len(ordered) - 1)

PositionOf(ordered, r) == CHOOSE i \in 1..Len(ordered) : ordered[i] = r

\* The ranked CTE.
ranked(table) ==
    LET stats == attacker_stats(table)
        desc == SortTotalDesc(stats)
        asc == SortTotalAsc(stats)
    IN  {[source_ip |-> r.source_ip,
          total_events |-> r.total_events,
          attack_rank |-> RankAt(desc, PositionOf(desc, r)),
          percentile |-> PercentRankAt(asc, PositionOf(asc, r))] : r \in stats}

\* Variant of WhereRank: LIMIT in place of the rank filter, keeping the
\* first `limit` rows of the ranking.
FirstRows(rows, limit) ==
    CHOOSE kept \in SUBSET rows :
        /\ Cardinality(kept) = Min(limit, Cardinality(rows))
        /\ \A r \in kept : \A q \in rows \ kept : r.attack_rank <= q.attack_rank

\* WHERE attack_rank <= %s
WhereRank(rows, limit) == {r \in rows : r.attack_rank <= limit}

\* ORDER BY attack_rank: rows of equal rank come in any order.
RECURSIVE OrderByRank(_)
OrderByRank(rows) ==
    IF rows = {} THEN {<<>>}
    ELSE LET first == {r \in rows :
                          \A q \in rows : r.attack_rank <= q.attack_rank}
         IN  UNION {{<<r>> \o rest : rest \in OrderByRank(rows \ {r})} :
                    r \in first}

get_top_attackers(limit) ==
    /\ request = NoRequest
    /\ \E rows \in OrderByRank(WhereRank(ranked(security_events), limit)) :
           response' = rows
    /\ request' = [op |-> "top-attackers", at |-> "returned", limit |-> limit]
    /\ UNCHANGED <<security_events, client>>
    /\ UNCHANGED poolVars

\* The reply went out; the next request can come.
request_done ==
    /\ request.op \in {"top-attackers", "severity-trend"}
    /\ request.at = "returned"
    /\ request' = NoRequest
    /\ response' = None
    /\ UNCHANGED <<security_events, client>>
    /\ UNCHANGED poolVars

(***************************************************************************)
(* SpecRank: /top-attackers over every table of up to MaxAttacks events    *)
(* from three source addresses.                                            *)
(***************************************************************************)
SourceIps == {"198.51.100.7", "203.0.113.9", "192.0.2.44"}

AttackEvent(ip) == Event(0, "high", "port_scan", ip)

InitRank ==
    \E n \in 0..MaxAttacks :
    \E ips \in [1..n -> SourceIps] :
        InitData([i \in 1..n |-> AttackEvent(ips[i])])

NextRank ==
    \/ \E limit \in 1..MaxLimit : get_top_attackers(limit)
    \/ request_done

SpecRank == InitRank /\ [][NextRank]_vars

(***************************************************************************)
(* get_severity_trend (analytics.py:67-105).  hour_bucket is a timestamp   *)
(* (in ticks) at the start of its hour; moving_avg_7h is in units of 0.01. *)
(***************************************************************************)
WindowPreceding == 6

\* date_trunc('hour', timestamp)
date_trunc_hour(ts) == ts - (ts % TicksPerHour)

\* INTERVAL '<n> hours'
Hours(n) == n * TicksPerHour

\* hourly_counts: GROUP BY date_trunc('hour', timestamp), severity
hourly_counts(table) ==
    {[hour_bucket |-> g[1], severity |-> g[2],
      event_count |-> Cardinality({i \in DOMAIN table :
                         /\ date_trunc_hour(table[i].timestamp) = g[1]
                         /\ table[i].severity = g[2]})] :
        g \in {<<date_trunc_hour(table[i].timestamp), table[i].severity>> :
                  i \in DOMAIN table}}

\* PARTITION BY severity ORDER BY hour_bucket: the partition's rows as the
\* window functions walk them.
RECURSIVE SortByBucket(_)
SortByBucket(rows) ==
    IF rows = {} THEN <<>>
    ELSE LET r == CHOOSE x \in rows :
                      \A q \in rows : x.hour_bucket <= q.hour_bucket
         IN  <<r>> \o SortByBucket(rows \ {r})

PartitionBySeverity(rows, severity) ==
    SortByBucket({r \in rows : r.severity = severity})

\* SUM(event_count) over the rows from..to of a partition
RECURSIVE SumCounts(_, _, _)
SumCounts(part, from, to) ==
    IF from > to THEN 0
    ELSE part[to].event_count + SumCounts(part, from, to - 1)

\* Variant of RunningTotalAt: the sum over the moving-average frame.
RunningTotalFramed(part, i) ==
    SumCounts(part, Max(1, i - WindowPreceding), i)

\* SUM(event_count) OVER (... ROWS UNBOUNDED PRECEDING)
RunningTotalAt(part, i) == SumCounts(part, 1, i)

\* ROUND(x, 2) of the fraction num / den, in units of 0.01 (half away from
\* zero; num >= 0, den > 0).
Round2(num, den) == (2 * 100 * num + den) \div (2 * den)

\* Variant of MovingAvgAt: the frame's sum over the frame's nominal width.
MovingAvgFixedWidth(part, i) ==
    Round2(SumCounts(part, Max(1, i - WindowPreceding), i),
           WindowPreceding + 1)

\* ROUND(AVG(event_count) OVER (... ROWS BETWEEN 6 PRECEDING AND CURRENT
\* ROW), 2): the mean over the rows the frame holds.
MovingAvgAt(part, i) ==
    LET from == Max(1, i - WindowPreceding)
    IN  Round2(SumCounts(part, from, i), i - from + 1)

\* The running CTE.
running(table) ==
    LET counts == hourly_counts(table)
    IN  UNION {LET part == PartitionBySeverity(counts, sev)
               IN  {[hour_bucket |-> part[i].hour_bucket,
                     severity |-> sev,
                     event_count |-> part[i].event_count,
                     running_total |-> RunningTotalAt(part, i),
                     moving_avg_7h |-> MovingAvgAt(part, i)] :
                        i \in 1..Len(part)} :
               sev \in {r.severity : r \in counts}}

MaxBucket(counts) ==
    CHOOSE b \in {r.hour_bucket : r \in counts} :
        \A r \in counts : r.hour_bucket <= b

\* Variant of WhereSinceCutoff: strictly after the cutoff.
WhereAfterCutoff(rows, counts, limit) ==
    IF counts = {} THEN {}
    ELSE {r \in rows : r.hour_bucket > MaxBucket(counts) - Hours(limit)}

\* WHERE hour_bucket >= (SELECT MAX(hour_bucket) - INTERVAL '%s hours'
\* FROM hourly_counts); over no rows MAX is NULL and nothing passes.
WhereSinceCutoff(rows, counts, limit) ==
    IF counts = {} THEN {}
    ELSE {r \in rows : r.hour_bucket >= MaxBucket(counts) - Hours(limit)}

\* Order of the severity column's values (text).
SeverityRank(sev) ==
    CASE sev = "critical" -> 1
      [] sev = "high" -> 2
      [] sev = "low" -> 3
      [] sev = "medium" -> 4

\* ORDER BY hour_bucket ASC, severity
RECURSIVE OrderByBucketSeverity(_)
OrderByBucketSeverity(rows) ==
    IF rows = {} THEN <<>>
    ELSE LET r == CHOOSE x \in rows : \A q \in rows :
                      \/ x.hour_bucket < q.hour_bucket
                      \/ /\ x.hour_bucket = q.hour_bucket
                         /\ SeverityRank(x.severity) <= SeverityRank(q.severity)
         IN  <<r>> \o OrderByBucketSeverity(rows \ {r})

get_severity_trend(limit) ==
    /\ request = NoRequest
    /\ response' = OrderByBucketSeverity(
                       WhereSinceCutoff(running(security_events),
                                        hourly_counts(security_events), limit))
    /\ request' = [op |-> "severity-trend", at |-> "returned", limit |-> limit]
    /\ UNCHANGED <<security_events, client>>
    /\ UNCHANGED poolVars

(***************************************************************************)
(* SpecTrend: /severity-trend over tables spanning two hours more than the *)
(* moving-average frame reaches back.  Every hour holds 1..MaxCount        *)
(* "high" events, except an optional gap hour that holds none; "low"       *)
(* events are in the first hour, the last hour, both or neither.           *)
(***************************************************************************)
LastHour == WindowPreceding + 1
TrendHours == 0..LastHour

\* n events of one severity within hour h, spread over its ticks
RECURSIVE EventsInHour(_, _, _)
EventsInHour(h, sev, n) ==
    IF n = 0 THEN <<>>
    ELSE Append(EventsInHour(h, sev, n - 1),
                Event(h * TicksPerHour + (n % TicksPerHour), sev,
                      "port_scan", "198.51.100.7"))

RECURSIVE TrendTable(_, _, _)
TrendTable(high, low, h) ==
    IF h < 0 THEN <<>>
    ELSE TrendTable(high, low, h - 1)
             \o EventsInHour(h, "high", high[h])
             \o EventsInHour(h, "low", IF h \in low THEN 1 ELSE 0)

InitTrend ==
    \/ InitData(<<>>)
    \/ \E counts \in [TrendHours -> 1..MaxCount] :
       \E gap \in TrendHours \cup {-1} :
       \E low \in SUBSET {0, LastHour} :
           InitData(TrendTable([h \in TrendHours |->
                                   IF h = gap THEN 0 ELSE counts[h]],
                               low, LastHour))

NextTrend ==
    \/ \E limit \in 1..MaxLookback : get_severity_trend(limit)
    \/ request_done

SpecTrend == InitTrend /\ [][NextTrend]_vars

(***************************************************************************)
(* Properties of the pool (SpecPool).                                      *)
(***************************************************************************)
InCall(t) == pc[t] \in {"try", "finally"}

Exhausted(p) ==
    /\ p.init
    /\ ~p.closed
    /\ p.idle = 0
    /\ Cardinality(p.used) = p.maxconn

\* C1: every call of execute_query / execute_scalar returns the connection
\* it obtained exactly once on every exit path (rows, no row, exception):
\* a thread holds a connection exactly while it is between get_connection
\* and the end of the finally clause, the connections returned equal the
\* connections obtained once a call is over, no call in progress means no
\* connection checked out, and never more than maxconn are checked out.
C1_ReleasedOnEveryExitPath ==
    /\ connection_pool.init =>
           Cardinality(connection_pool.used) <= connection_pool.maxconn
    /\ \A t \in Threads :
        /\ t \in connection_pool.used <=> InCall(t)
        /\ InCall(t) => gets[t] = puts[t] + 1
        /\ ~InCall(t) => puts[t] = gets[t]
    /\ (\A t \in Threads : ~InCall(t)) => connection_pool.used = {}

\* C1 witness: all calls are over, one of them ended by the query raising
\* after it had obtained a connection, another returned rows, and nothing
\* is checked out.
C1_Witness ==
    /\ \A t \in Threads : pc[t] = "responded"
    /\ \E t \in Threads : fetched[t] = "raise" /\ gets[t] = 1 /\ puts[t] = 1
    /\ \E t \in Threads : reply[t] = "page" /\ gets[t] = 2 /\ puts[t] = 2
    /\ connection_pool.used = {}

\* C8 as stated: while every connection is checked out, a further caller
\* stays blocked in get_connection (the code passes no timeout, so none can
\* elapse) until a connection is released.
C8_BlockedUntilReleased ==
    [][\A t \in Threads :
          (pc[t] = "get_connection" /\ Exhausted(connection_pool))
              => pc'[t] = "get_connection"]_vars

\* C8 amended: when every connection is checked out, a further caller is
\* not blocked: get_connection can always step, its only outcome is the
\* pool's resource-exhaustion failure (PoolError), and it never obtains a
\* connection in that state; so it never hangs.
C8_ExhaustedFailsAtOnce ==
    \A t \in Threads :
        (pc[t] = "get_connection" /\ Exhausted(connection_pool)) =>
            /\ ENABLED (get_connection(t) /\ reply'[t] = "PoolError")
            /\ ~ENABLED (get_connection(t) /\ reply'[t] # "PoolError")

\* C8 witness: a caller was turned away with PoolError while the pool is
\* open and every connection is checked out by the others.
C8_Witness ==
    \E t \in Threads :
        /\ pc[t] = "responded"
        /\ reply[t] = "PoolError"
        /\ fetched[t] = None
        /\ Exhausted(connection_pool)
        /\ connection_pool.used # {}

\* The request of thread t failed in the store: get_connection raised
\* (nothing was fetched) or the query raised.
StoreFailed(t) == fetched[t] \in {None, "raise"}

\* C9: get_kpis answers with the zeroed record only when the query
\* succeeded and gave no row; a list endpoint answers with an empty list
\* only when the query succeeded and gave no rows; any failure (pool not
\* initialised, exhausted or closed, connect or query failing) reaches the
\* caller as that failure.
C9_FailureNeverBecomesEmpty ==
    \A t \in Threads : pc[t] = "responded" =>
        /\ reply[t] = "zeroed" =>
               endpoint[t] = "kpis" /\ fetched[t] = "no_row" /\ gets[t] = 1
        /\ reply[t] = "[]" =>
               endpoint[t] = "list" /\ fetched[t] = "no_rows" /\ gets[t] = 1
        /\ StoreFailed(t) <=> reply[t] \in Exceptions

\* C9 witness: one request to /kpis got the zeroed record from a query that
\* gave no row, while another was refused by the exhausted pool and got the
\* failure.
C9_Witness ==
    \E t, u \in Threads :
        /\ pc[t] = "responded" /\ endpoint[t] = "kpis"
        /\ reply[t] = "zeroed" /\ fetched[t] = "no_row"
        /\ pc[u] = "responded" /\ endpoint[u] = "kpis"
        /\ reply[u] = "PoolError"


(***************************************************************************)
(* Properties of get_recent_events.                                        *)
(***************************************************************************)
Matching ==
    Where(Rows(security_events), request.severity, request.event_type)

\* C10: the reply's total_pages is ceil(total / page_size), 0 when total is
\* 0, for every validated page size; and the pages up to total_pages are
\* full except the last, which holds the remainder (total 25, page_size 10:
\* total_pages 3 and 5 records on page 3).
C10_TotalPagesIsCeiling ==
    (request.op = "recent-events" /\ request.at = "returned") =>
        LET pg == response.pagination
            tp == pg.total_pages
            ps == pg.page_size
        IN  /\ ps \in PageSizeMin..PageSizeMax
            /\ pg.total = Cardinality(Matching)
            /\ tp >= 0
            /\ tp * ps >= pg.total
            /\ tp > 0 => (tp - 1) * ps < pg.total
            /\ Len(response.data) =
                   (IF pg.page < tp THEN ps
                    ELSE IF pg.page = tp THEN pg.total - (tp - 1) * ps
                    ELSE 0)

\* C10 witness: 25 matching records at page size 10 give 3 pages, and page
\* 3 holds 5 records.
C10_Witness ==
    /\ request.op = "recent-events"
    /\ request.at = "returned"
    /\ response.pagination.total = 25
    /\ response.pagination.page_size = 10
    /\ response.pagination.page = 3
    /\ response.pagination.total_pages = 3
    /\ Len(response.data) = 5


\* The records the client's filters select.
ClientMatching ==
    Where(Rows(security_events), client.severity, client.event_type)

NonIncreasing(rows) ==
    \A i \in 1..(Len(rows) - 1) : rows[i].timestamp >= rows[i + 1].timestamp

ExactlyOnce(rows, set) ==
    /\ Len(rows) = Cardinality(set)
    /\ {rows[i] : i \in 1..Len(rows)} = set

\* C2: for a fixed table, fixed filters and a fixed page_size, the pages
\* 1..total_pages of get_recent_events, concatenated, hold every matching
\* record exactly once, in descending timestamp order, also when matching
\* records share a timestamp.
C2_PagesHoldEveryRecordOnce ==
    client.at = "done" =>
        /\ ExactlyOnce(client.data, ClientMatching)
        /\ NonIncreasing(client.data)

\* The matching records carry pairwise different timestamps.
DistinctTimestamps(set) ==
    \A r, q \in set : r.timestamp = q.timestamp => r = q

\* C2 without ties: when no two matching records share a timestamp, the
\* concatenated pages hold every matching record exactly once, in
\* descending timestamp order.
C2_ExactWithoutTies ==
    (client.at = "done" /\ DistinctTimestamps(ClientMatching)) =>
        /\ ExactlyOnce(client.data, ClientMatching)
        /\ NonIncreasing(client.data)


(***************************************************************************)
(* Properties of get_top_attackers.                                        *)
(***************************************************************************)
TotalOf(ip) ==
    Cardinality({i \in DOMAIN security_events :
                    security_events[i].source_ip = ip})

Attackers == {security_events[i].source_ip : i \in DOMAIN security_events}

\* 1 + the number of addresses with a strictly greater total
CompetitionRank(ip) ==
    1 + Cardinality({other \in Attackers : TotalOf(other) > TotalOf(ip)})

TopAttackersReturned ==
    request.op = "top-attackers" /\ request.at = "returned"

ResponseRows == {response[i] : i \in 1..Len(response)}

\* C3: in the ranking every address's rank is 1 + the number of addresses
\* with a strictly greater total; addresses with equal totals have the same
\* rank and the same percentile; every address with the maximum total has
\* rank 1 (and is returned, whatever the limit).
C3_TiesShareRankAndPercentile ==
    TopAttackersReturned =>
        /\ \A r \in ResponseRows :
            /\ r.total_events = TotalOf(r.source_ip)
            /\ r.attack_rank = CompetitionRank(r.source_ip)
        /\ \A r, q \in ResponseRows :
            r.total_events = q.total_events =>
                /\ r.attack_rank = q.attack_rank
                /\ r.percentile = q.percentile
        /\ \A ip \in Attackers :
            (\A other \in Attackers : TotalOf(other) <= TotalOf(ip)) =>
                \E r \in ResponseRows :
                    r.source_ip = ip /\ r.attack_rank = 1

\* C3 witness: totals 2, 2, 1 ranked 1, 1, 3, the two tied addresses with
\* equal percentiles.
C3_Witness ==
    /\ TopAttackersReturned
    /\ Len(response) = 3
    /\ response[1].total_events = 2 /\ response[1].attack_rank = 1
    /\ response[2].total_events = 2 /\ response[2].attack_rank = 1
    /\ response[3].total_events = 1 /\ response[3].attack_rank = 3
    /\ response[1].percentile = response[2].percentile

\* C4: with limit L the reply holds exactly the addresses of rank <= L,
\* each once, sorted by rank ascending; a tie group is returned whole or
\* not at all; the reply has at least min(L, number of addresses) rows.
C4_ExactlyTheRanksUpToLimit ==
    TopAttackersReturned =>
        /\ {r.source_ip : r \in ResponseRows} =
               {ip \in Attackers : CompetitionRank(ip) <= request.limit}
        /\ Len(response) = Cardinality({r.source_ip : r \in ResponseRows})
        /\ \A i \in 1..(Len(response) - 1) :
               response[i].attack_rank <= response[i + 1].attack_rank
        /\ \A ip, other \in Attackers :
               (TotalOf(ip) = TotalOf(other)) =>
                   ((\E r \in ResponseRows : r.source_ip = ip) <=>
                    (\E r \in ResponseRows : r.source_ip = other))
        /\ Len(response) >= Min(request.limit, Cardinality(Attackers))

\* C4 witness: a tie group at the limit: limit 1 and two rows returned,
\* while a third address is left out.
C4_Witness ==
    /\ TopAttackersReturned
    /\ request.limit = 1
    /\ Len(response) = 2
    /\ Cardinality(Attackers) = 3


(***************************************************************************)
(* Properties of get_severity_trend, stated over the events themselves.    *)
(***************************************************************************)
TrendReturned ==
    request.op = "severity-trend" /\ request.at = "returned"

TrendRows == {response[i] : i \in 1..Len(response)}

\* The hour (start tick) an event falls in
HourOf(i) ==
    security_events[i].timestamp - (security_events[i].timestamp % TicksPerHour)

\* Events of a severity within one hour / up to and including an hour
EventsAt(sev, bucket) ==
    {i \in DOMAIN security_events :
        security_events[i].severity = sev /\ HourOf(i) = bucket}

EventsUpTo(sev, bucket) ==
    {i \in DOMAIN security_events :
        security_events[i].severity = sev /\ HourOf(i) <= bucket}

EventsOf(sev) ==
    {i \in DOMAIN security_events : security_events[i].severity = sev}

\* The hours in which a severity has events
BucketsOf(sev) == {HourOf(i) : i \in EventsOf(sev)}

\* The newest hour that holds any event
NewestBucket ==
    CHOOSE b \in {HourOf(i) : i \in DOMAIN security_events} :
        \A i \in DOMAIN security_events : HourOf(i) <= b

\* C5: in every severity partition of the result the running totals never
\* decrease in bucket order, each is the number of events of that severity
\* at or before the row's bucket (buckets older than the cutoff included),
\* and at the partition's last bucket it is the partition's event count.
C5_RunningTotals ==
    TrendReturned =>
        /\ \A r \in TrendRows :
            /\ r.running_total =
                   Cardinality(EventsUpTo(r.severity, r.hour_bucket))
            /\ (\A b \in BucketsOf(r.severity) : b <= r.hour_bucket) =>
                   r.running_total = Cardinality(EventsOf(r.severity))
        /\ \A r, q \in TrendRows :
            (r.severity = q.severity /\ r.hour_bucket <= q.hour_bucket) =>
                r.running_total <= q.running_total

\* C5 witness: a returned row whose running total counts events of buckets
\* that the cutoff left out of the result, next to a row of another
\* severity.
C5_Witness ==
    /\ TrendReturned
    /\ \E r, q \in TrendRows :
        /\ r.severity # q.severity
        /\ r.running_total > r.event_count
        /\ \E b \in BucketsOf(r.severity) :
            /\ b < r.hour_bucket
            /\ \A x \in TrendRows : x.hour_bucket > b
        /\ (\A b \in BucketsOf(r.severity) : b <= r.hour_bucket)
        /\ r.running_total = Cardinality(EventsOf(r.severity))

\* C6: with lookback N the result is exactly the (bucket, severity) groups
\* whose bucket is at or after the newest bucket of any severity minus N
\* hours, each with its event count, ordered by bucket ascending and then
\* severity; over no events it is the empty list.
C6_ExactlyTheBucketsSinceCutoff ==
    TrendReturned =>
        /\ security_events = <<>> => response = <<>>
        /\ LET cutoff == NewestBucket - request.limit * TicksPerHour
           IN  {<<r.hour_bucket, r.severity>> : r \in TrendRows} =
                   {<<HourOf(i), security_events[i].severity>> :
                       i \in {j \in DOMAIN security_events :
                                 HourOf(j) >= cutoff}}
        /\ Len(response) = Cardinality(TrendRows)
        /\ \A r \in TrendRows :
               r.event_count = Cardinality(EventsAt(r.severity, r.hour_bucket))
        /\ \A i \in 1..(Len(response) - 1) :
            \/ response[i].hour_bucket < response[i + 1].hour_bucket
            \/ /\ response[i].hour_bucket = response[i + 1].hour_bucket
               /\ response[i].severity = "high"
               /\ response[i + 1].severity = "low"

\* C6 witness: the newest bucket holds only "low" events, a "high" row of
\* exactly N hours before it is returned, and older buckets are left out.
C6_Witness ==
    /\ TrendReturned
    /\ \E r, q \in TrendRows :
        /\ q.severity = "low" /\ q.hour_bucket = NewestBucket
        /\ EventsAt("high", NewestBucket) = {}
        /\ r.severity = "high"
        /\ r.hour_bucket = NewestBucket - request.limit * TicksPerHour
    /\ \E b \in BucketsOf("high") : \A r \in TrendRows : r.hour_bucket > b

\* Of the buckets bs, the up to 7 newest at or before a bucket
FrameBuckets(bs, bucket) ==
    {b \in bs :
        /\ b <= bucket
        /\ Cardinality({c \in bs : b < c /\ c <= bucket}) <= WindowPreceding}

\* C7: every moving average is the mean (rounded to 0.01) of the event
\* counts of the row's bucket and the up to 6 existing buckets of the same
\* severity before it, lies between 0 and the largest bucket count of the
\* severity, and at the first bucket of a severity equals that bucket's
\* count.
C7_MovingAverage ==
    TrendReturned =>
        \A r \in TrendRows :
            LET events == EventsOf(r.severity)
                bs == {HourOf(i) : i \in events}
                frame == FrameBuckets(bs, r.hour_bucket)
                n == Cardinality(frame)
                sum == Cardinality({i \in events : HourOf(i) \in frame})
            IN  /\ 2 * n * r.moving_avg_7h <= 200 * sum + n
                /\ 2 * n * r.moving_avg_7h > 200 * sum - n
                /\ r.moving_avg_7h >= 0
                /\ \E b \in bs :
                       r.moving_avg_7h
                           <= 100 * Cardinality({i \in events : HourOf(i) = b})
                /\ (\A b \in bs : b >= r.hour_bucket) =>
                       r.moving_avg_7h = 100 * r.event_count

\* C7 witness: a "high" row with seven existing buckets before it, whose
\* average leaves the oldest bucket out and is not a whole number; and a
\* "low" row that is the first of its severity.
C7_Witness ==
    /\ TrendReturned
    /\ \E r \in TrendRows :
        /\ r.severity = "high"
        /\ Cardinality({b \in BucketsOf("high") : b < r.hour_bucket}) = 7
        /\ \E b \in BucketsOf("high") :
               /\ b < r.hour_bucket
               /\ b \notin FrameBuckets(BucketsOf("high"), r.hour_bucket)
        /\ r.moving_avg_7h % 100 # 0
    /\ \E q \in TrendRows :
        /\ q.severity = "low"
        /\ \A b \in BucketsOf("low") : b >= q.hour_bucket
        /\ q.moving_avg_7h = 100 * q.event_count


(***************************************************************************)
(* Properties of get_recent_events under concurrent inserts (SpecAppend).  *)
(***************************************************************************)

\* C11: within one call of get_recent_events the reply's total is the
\* number of records matching the filters in the table from which the
\* returned page was sliced (the table as the data query read it), also
\* when a batch is committed between the count query and the data query.
C11_TotalDescribesThePagesTable ==
    [][(request.at = "data_query" /\ request'.at = "returned") =>
          /\ response'.pagination.total = Cardinality(Matching)
          /\ response'.pagination.total_pages =
                 TotalPages(Cardinality(Matching), request.page_size)]_vars

\* C11, what the code does keep: the reply's total is the number of
\* matching records the table held when the count query ran, so it is never
\* more than the number the data query read from (the table only grows).
C11_TotalIsTheEarlierCount ==
    [][(request.at = "data_query" /\ request'.at = "returned") =>
          /\ response'.pagination.total = request.total
          /\ response'.pagination.total <= Cardinality(Matching)]_vars

=============================================================================
